---- MODULE Spec2Model ----
(***************************************************************************)
(* A model of target_spotter's prediction pipeline:                        *)
(*   SplicingDependency.predict / _preprocess  (SplicingDependency.py)     *)
(*   compute_splicing_dependency, compute_single_splicing_dependency and   *)
(*   compute_max_harm_score                     (utils.py)                 *)
(*                                                                         *)
(* Floating point numbers are modelled as exact extended rationals: a pair *)
(* <<n, d>> with d > 0 and gcd(n, d) = 1 is the finite value n/d, <<1, 0>> *)
(* is +inf, <<-1, 0>> is -inf and <<0, 0>> is NaN.  Rounding of finite     *)
(* values is not modelled; the IEEE rules for inf and NaN are.  The only   *)
(* irrational operation, the square root of np.std, is truncated to        *)
(* 1/StdScale.                                                             *)
(*                                                                         *)
(* Identifiers (events, genes, samples) are modelled as naturals whose     *)
(* order is the lexicographic order of the labels (E1 < E2 < E3 ...).      *)
(*                                                                         *)
(* Library semantics are those of the libraries the code was written       *)
(* against: pandas 1.x (a set is accepted as a .loc indexer and iterated   *)
(* in hash order; MultiIndex.get_locs ignores absent list-like labels and  *)
(* reorders through _reorder_indexer), numpy >= 1.22 (np.quantile through  *)
(* _lerp) and joblib (Parallel returns results in task order).             *)
(***************************************************************************)
EXTENDS Integers, Sequences, FiniteSets, TLC

VARIABLES
    mode,           \* which entry point this behaviour exercises: "predict", "pair", "harm"
    pc,             \* position inside the entry point
    args,           \* the arguments of the call (never modified)
    splicing_,      \* estimator.splicing_
    genexpr_,       \* estimator.genexpr_
    ccle_stats_,    \* estimator.ccle_stats_
    coefs_splicing_,  \* estimator.coefs_splicing_ (overwritten by _preprocess)
    coefs_genexpr_,   \* estimator.coefs_genexpr_
    coefs_intercept_, \* estimator.coefs_intercept_
    prep_splicing_, \* estimator.prep_splicing_
    prep_genexpr_,  \* estimator.prep_genexpr_
    summaries_,     \* estimator.summaries_ (assigned by fit)
    next_task,      \* Parallel: position of the next pair the generator will yield
    running,        \* Parallel: indices of the tasks being executed by workers
    result,         \* Parallel: result slot per task index
    completion,     \* history: task indices in the order they completed
    splicing_dependency_, \* estimator.splicing_dependency_ ("unset" before assignment)
    returned,       \* value returned to the caller ("none" while running or on failure)
    error,          \* exception raised to the caller ("none" if none)
    run_pc,         \* position inside PredictFromFiles.run ("none": run is not in use)
    files           \* the result files of output_dir: "absent", "partial" or "complete"

vars == <<mode, pc, args, splicing_, genexpr_, ccle_stats_, coefs_splicing_,
          coefs_genexpr_, coefs_intercept_, prep_splicing_, prep_genexpr_,
          summaries_, next_task, running, result, completion, splicing_dependency_,
          returned, error, run_pc, files>>

----------------------------------------------------------------------------
(* Bounds of the model *)

\* longest bootstrap vector (n_iterations) drawn for the stand-alone pair evaluation
MaxK == 4
\* largest worker count n_jobs
MaxJobs == 3
\* np.sqrt is truncated to multiples of 1/StdScale
StdScale == 100
\* np.log2 is truncated to Log2Bits binary digits after the point, computed on
\* a mantissa of Log2Work binary digits
Log2Bits == 4
Log2Work == 12

----------------------------------------------------------------------------
(* Extended rational arithmetic (IEEE double arithmetic without rounding) *)

Abs(x) == IF x < 0 THEN -x ELSE x

Sgn(x) == IF x > 0 THEN 1 ELSE IF x < 0 THEN -1 ELSE 0

RECURSIVE GCD(_, _)
GCD(a, b) == IF b = 0 THEN a ELSE GCD(b, a % b)

\* the finite value n/d (d # 0) in lowest terms
Rat(n, d) ==
    LET s == IF d < 0 THEN -1 ELSE 1
        g == GCD(Abs(n), Abs(d))
    IN  <<(s * n) \div g, (s * d) \div g>>

Int2F(i) == <<i, 1>>
NaN == <<0, 0>>
PInf == <<1, 0>>
NInf == <<-1, 0>>
Zero == <<0, 1>>

IsNaN(a) == a[1] = 0 /\ a[2] = 0
IsInf(a) == a[1] # 0 /\ a[2] = 0
IsFinite(a) == a[2] # 0

FNeg(a) == <<-a[1], a[2]>>

FAdd(a, b) ==
    IF IsNaN(a) \/ IsNaN(b) THEN NaN
    ELSE IF IsInf(a) /\ IsInf(b) THEN (IF a = b THEN a ELSE NaN)
    ELSE IF IsInf(a) THEN a
    ELSE IF IsInf(b) THEN b
    ELSE Rat(a[1] * b[2] + b[1] * a[2], a[2] * b[2])

FSub(a, b) == FAdd(a, FNeg(b))

FMul(a, b) ==
    IF IsNaN(a) \/ IsNaN(b) THEN NaN
    ELSE IF IsInf(a) \/ IsInf(b)
         THEN <<Sgn(a[1]) * Sgn(b[1]), 0>>      \* 0 * inf = NaN
    ELSE Rat(a[1] * b[1], a[2] * b[2])

\* a / b with a zero divisor giving +-inf or NaN (no exception: numpy semantics)
FDiv(a, b) ==
    IF IsNaN(a) \/ IsNaN(b) THEN NaN
    ELSE IF IsInf(b) THEN (IF IsInf(a) THEN NaN ELSE Zero)
    ELSE IF b[1] = 0 THEN <<Sgn(a[1]), 0>>      \* x/0 = +-inf, 0/0 = NaN
    ELSE IF IsInf(a) THEN <<Sgn(a[1]) * Sgn(b[1]), 0>>
    ELSE Rat(a[1] * b[2], a[2] * b[1])

\* a < b in numpy's sort order: -inf < finite < +inf < NaN
FClass(a) == IF IsNaN(a) THEN 3 ELSE IF a = PInf THEN 2 ELSE IF a = NInf THEN 0 ELSE 1

FLess(a, b) ==
    \/ FClass(a) < FClass(b)
    \/ FClass(a) = 1 /\ FClass(b) = 1 /\ a[1] * b[2] < b[1] * a[2]

RECURSIVE ISqrtIn(_, _, _)
ISqrtIn(x, lo, hi) ==
    IF lo >= hi THEN lo
    ELSE LET mid == (lo + hi + 1) \div 2
         IN  IF mid * mid <= x THEN ISqrtIn(x, mid, hi) ELSE ISqrtIn(x, lo, mid - 1)

\* floor of the square root of a natural
ISqrt(x) == ISqrtIn(x, 0, IF x < 46340 THEN x ELSE 46340)

\* np.sqrt, truncated to a multiple of 1/StdScale
FSqrt(a) ==
    IF IsNaN(a) \/ a = NInf \/ (IsFinite(a) /\ a[1] < 0) THEN NaN
    ELSE IF a = PInf THEN PInf
    ELSE Rat(ISqrt((StdScale * StdScale * a[1]) \div a[2]), StdScale)

RECURSIVE Pow2(_)
Pow2(k) == IF k = 0 THEN 1 ELSE 2 * Pow2(k - 1)

\* the largest e >= 0 with d * 2^e <= n (for n >= d > 0)
RECURSIVE ExpUp(_, _)
ExpUp(n, d) == IF 2 * d <= n THEN 1 + ExpUp(n, 2 * d) ELSE 0

\* the smallest e > 0 with n * 2^e >= d (for 0 < n < d)
RECURSIVE ExpDown(_, _)
ExpDown(n, d) == IF 2 * n >= d THEN 1 ELSE 1 + ExpDown(2 * n, d)

\* the binary digits after the point of log2(m / 2^Log2Work), by repeated squaring
RECURSIVE FracBits(_, _, _)
FracBits(m, k, acc) ==
    IF k = 0 THEN acc
    ELSE LET sq == (m * m) \div Pow2(Log2Work)
         IN  IF sq >= Pow2(Log2Work + 1) THEN FracBits(sq \div 2, k - 1, 2 * acc + 1)
             ELSE FracBits(sq, k - 1, 2 * acc)

\* np.log2, truncated to a multiple of 1/2^Log2Bits: log2(0) = -inf, NaN below 0
Log2F(a) ==
    IF IsNaN(a) \/ a = NInf \/ (IsFinite(a) /\ a[1] < 0) THEN NaN
    ELSE IF a = PInf THEN PInf
    ELSE IF a[1] = 0 THEN NInf
    ELSE LET n == a[1]
             d == a[2]
             e == IF n >= d THEN ExpUp(n, d) ELSE -ExpDown(n, d)
             m == IF e >= Log2Work THEN n \div (d * Pow2(e - Log2Work))
                  ELSE (n * Pow2(Log2Work - e)) \div d
         IN  Rat(e * Pow2(Log2Bits) + FracBits(m, Log2Bits, 0), Pow2(Log2Bits))

----------------------------------------------------------------------------
(* numpy reductions over one column of the K x S matrix *)

RECURSIVE SumSeq(_)
SumSeq(s) == IF s = <<>> THEN Zero ELSE FAdd(s[1], SumSeq(Tail(s)))

RECURSIVE InsertSorted(_, _)
InsertSorted(x, s) ==
    IF s = <<>> THEN <<x>>
    ELSE IF FLess(x, s[1]) THEN <<x>> \o s
    ELSE <<s[1]>> \o InsertSorted(x, Tail(s))

RECURSIVE np_sort(_)
np_sort(s) == IF s = <<>> THEN <<>> ELSE InsertSorted(s[1], np_sort(Tail(s)))

HasNaN(s) == \E i \in 1..Len(s) : IsNaN(s[i])

\* np.mean(y, axis=0) for one column
np_mean(col) == FDiv(SumSeq(col), Int2F(Len(col)))

\* np.median(y, axis=0) for one column: mean of the middle element(s), NaN if any NaN
np_median(col) ==
    LET n == Len(col)
        srt == np_sort(col)
        index == n \div 2
    IN  IF HasNaN(col) THEN NaN
        ELSE IF n % 2 = 1 THEN np_mean(<<srt[index + 1]>>)
        ELSE np_mean(<<srt[index], srt[index + 1]>>)

\* np.std(y, axis=0) with ddof = 0 for one column
np_var(col) ==
    LET arrmean == np_mean(col)
        dev == [i \in 1..Len(col) |-> FSub(col[i], arrmean)]
        sq == [i \in 1..Len(col) |-> FMul(dev[i], dev[i])]
    IN  FDiv(SumSeq(sq), Int2F(Len(col)))

np_std(col) == FSqrt(np_var(col))

\* numpy's _lerp(a, b, t)
Lerp(a, b, t) ==
    LET diff_b_a == FSub(b, a)
    IN  IF FLess(t, <<1, 2>>)
        THEN FAdd(a, FMul(diff_b_a, t))
        ELSE FSub(b, FMul(diff_b_a, FSub(Int2F(1), t)))

\* a quantile without interpolation (method "lower"): the order statistic below
np_quantile_lower(col, qn) ==
    LET n == Len(col)
        srt == np_sort(col)
    IN  IF HasNaN(col) THEN NaN ELSE srt[(((n - 1) * qn) \div 4) + 1]

\* np.quantile(y, q, axis=0), q = qn/4, default method "linear", for one column
np_quantile(col, qn) ==
    LET n == Len(col)
        srt == np_sort(col)
        virt4 == (n - 1) * qn                 \* 4 * virtual index
        above == virt4 >= 4 * (n - 1)         \* virtual index >= n - 1
        prev == IF above THEN n ELSE (virt4 \div 4) + 1      \* 1-based
        nxt == IF above THEN n ELSE prev + 1
        gamma == IF above THEN FSub(Rat(virt4, 4), Int2F(-1))
                 ELSE Rat(virt4 % 4, 4)
    IN  IF HasNaN(col) THEN NaN ELSE Lerp(srt[prev], srt[nxt], gamma)

----------------------------------------------------------------------------
(* compute_single_splicing_dependency *)

\* numpy broadcasting of (K1,1)-shaped against (K2,.)-shaped operands
Broadcastable(k1, k2) == k1 = k2 \/ k1 = 1 \/ k2 = 1

BMax(k1, k2) == IF k1 >= k2 THEN k1 ELSE k2

BAt(v, k) == IF Len(v) = 1 THEN v[1] ELSE v[k]

\* does  b_intercept + b_event * PSI + b_gene * TPM  raise ValueError?
SingleRaises(b_event, b_gene, b_intercept) ==
    \/ ~Broadcastable(Len(b_intercept), Len(b_event))
    \/ ~Broadcastable(BMax(Len(b_intercept), Len(b_event)), Len(b_gene))

\* y[k][s] = b_intercept[k] + b_event[k]*PSI[s] + b_gene[k]*TPM[s]
YMatrix(b_event, b_gene, b_intercept, PSI, TPM) ==
    LET K == BMax(BMax(Len(b_intercept), Len(b_event)), Len(b_gene))
    IN  [k \in 1..K |-> [s \in 1..Len(PSI) |->
            FAdd(FAdd(BAt(b_intercept, k), FMul(BAt(b_event, k), PSI[s])),
                 FMul(BAt(b_gene, k), TPM[s]))]]

Column(y, s) == [k \in 1..Len(y) |-> y[k][s]]

\* the summary dict of five Series (index = samples, name = event)
compute_single_splicing_dependency(b_event, b_gene, b_intercept, x_splicing, x_genexpr) ==
    LET y == YMatrix(b_event, b_gene, b_intercept, x_splicing.values, x_genexpr.values)
        S == Len(x_splicing.values)
    IN  [name |-> x_splicing.name,
         index |-> x_splicing.index,
         mean |-> [s \in 1..S |-> np_mean(Column(y, s))],
         median |-> [s \in 1..S |-> np_median(Column(y, s))],
         std |-> [s \in 1..S |-> np_std(Column(y, s))],
         q25 |-> [s \in 1..S |-> np_quantile(Column(y, s), 1)],
         q75 |-> [s \in 1..S |-> np_quantile(Column(y, s), 3)]]

----------------------------------------------------------------------------
(* Stand-alone evaluation of one pair: compute_single_splicing_dependency  *)
(* applied to bounded inputs.                                               *)

\* an attribute that has not been assigned / Python's None (records, so that they
\* compare with tables and summaries)
Unset == [unset |-> TRUE]
None == [none |-> TRUE]

\* the estimator and the worker pool before anything has run
EstimatorIdle ==
    /\ splicing_ = Unset /\ genexpr_ = Unset /\ ccle_stats_ = Unset
    /\ coefs_splicing_ = Unset /\ coefs_genexpr_ = Unset /\ coefs_intercept_ = Unset
    /\ prep_splicing_ = Unset /\ prep_genexpr_ = Unset
    /\ splicing_dependency_ = Unset /\ summaries_ = Unset

PoolIdle == next_task = 1 /\ running = {} /\ result = <<>> /\ completion = <<>>

\* the files save writes, in the order it writes them
ResultFiles == <<"mean", "median", "std">>

NoFiles == [f \in {ResultFiles[i] : i \in 1..Len(ResultFiles)} |-> "absent"]

\* PredictFromFiles is not in use and output_dir holds no result file
RunIdle == run_pc = "none" /\ files = NoFiles

runVars == <<run_pc, files>>

estimatorVars == <<splicing_, genexpr_, ccle_stats_, coefs_splicing_, coefs_genexpr_,
                   coefs_intercept_, prep_splicing_, prep_genexpr_, splicing_dependency_,
                   summaries_>>

poolVars == <<next_task, running, result, completion>>

PairCoefVals == {1, 2, 3}
PairSamples == <<1, 2>>
PairPsiVals == {<<1, 2>>, <<-3, 2>>}
PairTpmVals == {<<0, 1>>, <<1, 1>>}

ToF(v) == [i \in 1..Len(v) |-> Int2F(v[i])]

\* bootstrap vectors of the gene coefficient and of the intercept: flat or varying
PairGeneVecs(K) == {[k \in 1..K |-> 0], [k \in 1..K |-> k]}
PairInterceptVecs(K) == {[k \in 1..K |-> 0], [k \in 1..K |-> IF k % 2 = 1 THEN -2 ELSE 2]}

PairInputs ==
    UNION {
      [b_event : {ToF(v) : v \in [1..K -> PairCoefVals]},
       b_gene : {ToF(v) : v \in PairGeneVecs(K)},
       b_intercept : {ToF(v) : v \in PairInterceptVecs(K)},
       x_splicing : [name : {1}, index : {PairSamples},
                     values : [1..Len(PairSamples) -> PairPsiVals]],
       x_genexpr : [name : {1}, index : {PairSamples},
                    values : [1..Len(PairSamples) -> PairTpmVals]]]
      : K \in 1..MaxK }

InitPair ==
    /\ mode = "pair"
    /\ pc = "call"
    /\ args \in PairInputs
    /\ EstimatorIdle /\ PoolIdle /\ RunIdle
    /\ returned = None /\ error = None

\* one call of compute_single_splicing_dependency
EvalPair ==
    /\ mode = "pair" /\ pc = "call"
    /\ IF SingleRaises(args.b_event, args.b_gene, args.b_intercept)
       THEN /\ pc' = "failed"
            /\ error' = [type |-> "ValueError", key |-> <<>>, where |-> "task"]
            /\ returned' = returned
       ELSE /\ pc' = "done"
            /\ returned' = compute_single_splicing_dependency(
                              args.b_event, args.b_gene, args.b_intercept,
                              args.x_splicing, args.x_genexpr)
            /\ error' = error
    /\ UNCHANGED <<runVars, mode, args, estimatorVars, poolVars>>

NextPair == EvalPair

SpecPair == InitPair /\ [][NextPair]_vars

----------------------------------------------------------------------------
(* DataFrames: [index, columns, values], values[i][j] the cell of row i, column j *)

SeqToSet(q) == {q[i] : i \in 1..Len(q)}

\* position of the first occurrence of label x
IndexOf(q, x) == CHOOSE i \in 1..Len(q) : q[i] = x /\ \A j \in 1..(i - 1) : q[j] # x

\* the orders in which a Python set may be iterated
SetOrders(S) ==
    {p \in [1..Cardinality(S) -> S] : \A i, j \in 1..Cardinality(S) : p[i] = p[j] => i = j}

\* df.loc[rows, cols] for lists of labels present in df
Loc(df, rows, cols) ==
    [index |-> rows,
     columns |-> cols,
     values |-> [i \in 1..Len(rows) |-> [j \in 1..Len(cols) |->
                    df.values[IndexOf(df.index, rows[i])][IndexOf(df.columns, cols[j])]]]]

\* the cell labelled (r, c)
At(df, r, c) == df.values[IndexOf(df.index, r)][IndexOf(df.columns, c)]

----------------------------------------------------------------------------
(* compute_max_harm_score *)

\* final PSI with the two thresholds exchanged
PsiFinalSwapped(dep) ==
    IF ~IsNaN(dep) /\ FLess(dep, Zero) THEN Int2F(100)
    ELSE IF ~IsNaN(dep) /\ FLess(Zero, dep) THEN Zero ELSE dep

\* psi_final.values[psi_final < 0] = 0 ; psi_final.values[psi_final > 0] = 100
PsiFinal(dep) ==
    LET neg == IF ~IsNaN(dep) /\ FLess(dep, Zero) THEN Zero ELSE dep
    IN  IF ~IsNaN(neg) /\ FLess(Zero, neg) THEN Int2F(100) ELSE neg

\* (-1) * splicing_dependency * (psi_final - splicing) on aligned tables
MaxHarmTable(splicing, splicing_dependency) ==
    [index |-> splicing.index,
     columns |-> splicing.columns,
     values |-> [i \in 1..Len(splicing.index) |-> [j \in 1..Len(splicing.columns) |->
        FMul(FMul(Int2F(-1), splicing_dependency.values[i][j]),
             FSub(PsiFinal(splicing_dependency.values[i][j]), splicing.values[i][j]))]]]

HarmEvents == {<<1, 2>>, <<2, 1, 3>>, <<3>>}
HarmSamples == {<<1, 2>>, <<2, 3>>}
HarmScores == {Int2F(-2), Zero, Int2F(2)}
HarmPsi == {Int2F(30), Int2F(100)}

\* PSI tables whose cells are a base value shifted per row
HarmSplicingTables ==
    {[index |-> r, columns |-> c,
      values |-> [i \in 1..Len(r) |-> [j \in 1..Len(c) |->
                    IF i = 1 THEN b ELSE Int2F(10 * r[i] + c[j])]]]
        : r \in HarmEvents, c \in HarmSamples, b \in HarmPsi}

HarmDependencyTables ==
    UNION {[index : {r}, columns : {<<1, 2>>},
            values : [1..Len(r) -> [1..2 -> HarmScores]]] : r \in {<<1, 2>>, <<2>>}}

InitHarm ==
    /\ mode = "harm"
    /\ pc = "call"
    /\ args \in [splicing : HarmSplicingTables, splicing_dependency : HarmDependencyTables]
    /\ EstimatorIdle /\ PoolIdle /\ RunIdle
    /\ returned = None /\ error = None

\* one call of compute_max_harm_score; the two sets are iterated in hash order
MaxHarm ==
    /\ mode = "harm" /\ pc = "call"
    /\ LET common_samples == SeqToSet(args.splicing.columns)
                                \cap SeqToSet(args.splicing_dependency.columns)
           common_events == SeqToSet(args.splicing.index)
                                \cap SeqToSet(args.splicing_dependency.index)
       IN  \E rows \in SetOrders(common_events), cols \in SetOrders(common_samples) :
              returned' = MaxHarmTable(Loc(args.splicing, rows, cols),
                                       Loc(args.splicing_dependency, rows, cols))
    /\ pc' = "done"
    /\ UNCHANGED <<runVars, mode, args, estimatorVars, poolVars, error>>

NextHarm == MaxHarm

SpecHarm == InitHarm /\ [][NextHarm]_vars

----------------------------------------------------------------------------
(* SplicingDependency._preprocess: alignment *)

\* coefficient tables are sequences of rows [EVENT, GENE, ENSEMBL, b], b the
\* bootstrap columns; the reference statistics are a sequence of rows
\* [EVENT, ENSEMBL, event_mean, event_std, gene_mean, gene_std] (MultiIndex
\* EVENT, ENSEMBL)

CommonEvents(coefs, splicing, genexpr) ==
    {coefs[i].EVENT : i \in 1..Len(coefs)}
        \cap SeqToSet(splicing.index)
        \cap {coefs[i].EVENT : i \in {j \in 1..Len(coefs) :
                                        coefs[j].ENSEMBL \in SeqToSet(genexpr.index)}}

CommonGenes(coefs, splicing, genexpr) ==
    {coefs[i].ENSEMBL : i \in 1..Len(coefs)}
        \cap SeqToSet(genexpr.index)
        \cap {coefs[i].ENSEMBL : i \in {j \in 1..Len(coefs) :
                                        coefs[j].EVENT \in SeqToSet(splicing.index)}}

CommonSamples(splicing, genexpr) ==
    SeqToSet(splicing.columns) \cap SeqToSet(genexpr.columns)

\* coefs.loc[coefs["EVENT"].isin(common_events) & coefs["ENSEMBL"].isin(common_genes)]
FilterCoefs(coefs, common_events, common_genes) ==
    LET Keep(r) == r.EVENT \in common_events /\ r.ENSEMBL \in common_genes
    IN  SelectSeq(coefs, Keep)

----------------------------------------------------------------------------
(* SplicingDependency._preprocess: standardization *)

RECURSIVE AscendingSeq(_)
AscendingSeq(S) ==
    IF S = {} THEN <<>>
    ELSE LET m == CHOOSE x \in S : \A y \in S : x <= y
         IN  <<m>> \o AscendingSeq(S \ {m})

LevelLabel(row, level) == IF level = 0 THEN row.EVENT ELSE row.ENSEMBL

\* MultiIndex._is_lexsorted: the (EVENT, ENSEMBL) codes never decrease
IsLexsorted(stats) ==
    \A i \in 1..(Len(stats) - 1) :
        \/ stats[i].EVENT < stats[i + 1].EVENT
        \/ stats[i].EVENT = stats[i + 1].EVENT /\ stats[i].ENSEMBL <= stats[i + 1].ENSEMBL

\* the codes of the keys found in the level never decrease
KeyCodesSorted(stats, level, keys) ==
    LET InLevel(k) == \E i \in 1..Len(stats) : LevelLabel(stats[i], level) = k
        present == SelectSeq(keys, InLevel)
    IN  \A i \in 1..(Len(present) - 1) : present[i] <= present[i + 1]

\* positions grouped by key in the order of the keys, ascending within a key
RECURSIVE LocsByKey(_, _, _)
LocsByKey(stats, level, keys) ==
    IF keys = <<>> THEN <<>>
    ELSE LET NotHead(k) == k # keys[1]
         IN  AscendingSeq({i \in 1..Len(stats) : LevelLabel(stats[i], level) = keys[1]})
                \o LocsByKey(stats, level, SelectSeq(Tail(keys), NotHead))

\* MultiIndex.get_locs for (keys, slice(None)) (level 0) and (slice(None), keys)
\* (level 1): labels absent from the level are ignored; the positions come in
\* frame order when the index is lexsorted and the keys are sorted, and are
\* otherwise reordered to follow the keys (_reorder_indexer)
GetLocs(stats, level, keys) ==
    IF IsLexsorted(stats) /\ KeyCodesSorted(stats, level, keys)
    THEN AscendingSeq({i \in 1..Len(stats) : LevelLabel(stats[i], level) \in SeqToSet(keys)})
    ELSE LocsByKey(stats, level, keys)

\* DataFrame.drop_duplicates(): the first occurrence of every row is kept
RECURSIVE DropDuplicates(_)
DropDuplicates(q) ==
    IF q = <<>> THEN <<>>
    ELSE LET init == DropDuplicates(SubSeq(q, 1, Len(q) - 1))
             last == q[Len(q)]
         IN  IF last \in SeqToSet(init) THEN init ELSE Append(init, last)

\* ccle_stats.loc[(splicing.index, slice(None)), column].values
EventStat(stats, keys, column) ==
    LET locs == GetLocs(stats, 0, keys)
    IN  [i \in 1..Len(locs) |-> stats[locs[i]][column]]

\* ccle_stats.loc[(slice(None), genexpr.index), column]
\*     .reset_index(["ENSEMBL"]).drop_duplicates()[column].values
GeneStat(stats, keys, column) ==
    LET locs == GetLocs(stats, 1, keys)
        frame == DropDuplicates([i \in 1..Len(locs) |->
                                    <<stats[locs[i]].ENSEMBL, stats[locs[i]][column]>>])
    IN  [i \in 1..Len(frame) |-> frame[i][2]]

\* np.log2(genexpr + 1)
LogTransform(df) ==
    [df EXCEPT !.values = [i \in 1..Len(df.index) |-> [j \in 1..Len(df.columns) |->
                              Log2F(FAdd(df.values[i][j], Int2F(1)))]]]

\* gene_lengths.loc[mrna_count.index] raises KeyError: a gene without a length
CountToTpmRaises(mrna_count, gene_lengths) ==
    \E i \in 1..Len(mrna_count.index) :
        \A k \in 1..Len(gene_lengths) : gene_lengths[k].gene # mrna_count.index[i]

\* the length recorded for gene g
LengthOf(gene_lengths, g) ==
    gene_lengths[CHOOSE k \in 1..Len(gene_lengths) : gene_lengths[k].gene = g].length

\* DataFrame.sum(axis=0): NaN cells are skipped
SumSkipNaN(col) ==
    LET NotNaN(x) == ~IsNaN(x)
    IN  SumSeq(SelectSeq(col, NotNaN))

\* utils.count_to_tpm: counts per length, infinite ratios replaced by NaN,
\* scaled to a million per sample, then log2(tpm + 1)
count_to_tpm(mrna_count, gene_lengths) ==
    LET n == Len(mrna_count.index)
        S == Len(mrna_count.columns)
        Ratio(i, j) == FDiv(mrna_count.values[i][j],
                            LengthOf(gene_lengths, mrna_count.index[i]))
        X == [i \in 1..n |-> [j \in 1..S |->
                IF IsInf(Ratio(i, j)) THEN NaN ELSE Ratio(i, j)]]
        total == [j \in 1..S |-> SumSkipNaN([i \in 1..n |-> X[i][j]])]
    IN  [mrna_count EXCEPT !.values = [i \in 1..n |-> [j \in 1..S |->
            Log2F(FAdd(FDiv(FMul(Int2F(1000000), X[i][j]), total[j]), Int2F(1)))]]]

\* an alignment that also rejects a frame without rows or without columns
FrameOpRaisesOnEmpty(df, vec) ==
    \/ Len(df.index) = 0
    \/ Len(df.columns) = 0
    \/ ~(Len(vec) = Len(df.index) \/ (Len(df.columns) = 1 /\ Len(vec) = 1))

\* DataFrame (n x S) op ndarray (m x 1): can pandas align the operands?
FrameOpRaises(df, vec) ==
    LET n == Len(df.index)
        S == Len(df.columns)
        m == Len(vec)
    IN  ~(m = n \/ (S = 1 /\ m = 1))

\* the operand of row i after alignment: its own entry, or the single entry of a
\* 1 x 1 array broadcast along the rows of a one-column frame
FrameOperand(df, vec, i) == IF Len(vec) = Len(df.index) THEN vec[i] ELSE vec[1]

\* (df - mean) / std
Standardize(df, mean, std) ==
    [index |-> df.index,
     columns |-> df.columns,
     values |-> [i \in 1..Len(df.index) |-> [j \in 1..Len(df.columns) |->
                    FDiv(FSub(df.values[i][j], FrameOperand(df, mean, i)),
                         FrameOperand(df, std, i))]]]

PreprocessRaisesOn(splicing, genexpr, stats) ==
    \/ FrameOpRaises(splicing, EventStat(stats, splicing.index, "event_mean"))
    \/ FrameOpRaises(splicing, EventStat(stats, splicing.index, "event_std"))
    \/ FrameOpRaises(genexpr, GeneStat(stats, genexpr.index, "gene_mean"))
    \/ FrameOpRaises(genexpr, GeneStat(stats, genexpr.index, "gene_std"))

StandardizeSplicing(splicing, stats) ==
    Standardize(splicing, EventStat(stats, splicing.index, "event_mean"),
                          EventStat(stats, splicing.index, "event_std"))

StandardizeGenexpr(genexpr, stats) ==
    Standardize(genexpr, GeneStat(stats, genexpr.index, "gene_mean"),
                         GeneStat(stats, genexpr.index, "gene_std"))

----------------------------------------------------------------------------
(* compute_splicing_dependency: the tasks and the aggregation *)

\* coefs.set_index(["EVENT", "ENSEMBL"]).index
PairsOf(coefs) == [i \in 1..Len(coefs) |-> <<coefs[i].EVENT, coefs[i].ENSEMBL>>]

HasKey(coefs, pair) ==
    \E i \in 1..Len(coefs) : coefs[i].EVENT = pair[1] /\ coefs[i].ENSEMBL = pair[2]

\* coefs.loc[(event, gene)].values.reshape(-1, 1): the bootstrap values of every
\* row with that key, row after row
RECURSIVE CoefLoc(_, _)
CoefLoc(coefs, pair) ==
    IF coefs = <<>> THEN <<>>
    ELSE (IF coefs[1].EVENT = pair[1] /\ coefs[1].ENSEMBL = pair[2] THEN coefs[1].b ELSE <<>>)
            \o CoefLoc(Tail(coefs), pair)

\* df.loc[label]: the row as a Series
RowSeries(df, label) ==
    [name |-> label, index |-> df.columns, values |-> df.values[IndexOf(df.index, label)]]

\* building the arguments of task i raises KeyError
TaskArgsRaise(coefs_gene, coefs_intercept, pair) ==
    ~HasKey(coefs_gene, pair) \/ ~HasKey(coefs_intercept, pair)

\* the label the KeyError of coefs.loc[(event, gene)] names: pandas re-reads the
\* tuple axis by axis, so it is the event when no row holds the event, and else
\* the gene, looked up among the bootstrap columns (none of which is named as a gene)
LocKeyError(coefs, pair) ==
    IF \A i \in 1..Len(coefs) : coefs[i].EVENT # pair[1] THEN <<pair[1]>> ELSE <<pair[2]>>

\* the label named when the arguments of the pair cannot be built: b_gene is
\* looked up before b_intercept
TaskArgsKeyError(coefs_gene, coefs_intercept, pair) ==
    IF ~HasKey(coefs_gene, pair) THEN LocKeyError(coefs_gene, pair)
    ELSE LocKeyError(coefs_intercept, pair)

\* the worker's call for one pair raises
TaskRaises(coefs_event, coefs_gene, coefs_intercept, pair) ==
    SingleRaises(CoefLoc(coefs_event, pair), CoefLoc(coefs_gene, pair),
                 CoefLoc(coefs_intercept, pair))

TaskSummary(splicing, genexpr, coefs_event, coefs_gene, coefs_intercept, pair) ==
    compute_single_splicing_dependency(
        CoefLoc(coefs_event, pair), CoefLoc(coefs_gene, pair),
        CoefLoc(coefs_intercept, pair),
        RowSeries(splicing, pair[1]), RowSeries(genexpr, pair[2]))

Fields == {"mean", "median", "std", "q25", "q75"}

\* results handed back in the order in which the tasks completed
CompletionOrder(n, done) == done

\* the order in which Parallel hands back the results: the order of the tasks
ResultOrder(n, done) == [i \in 1..n |-> i]

\* pd.DataFrame([r[field] for r in result])
ResultTable(res, order, field) ==
    [index |-> [i \in 1..Len(order) |-> res[order[i]].name],
     columns |-> IF Len(order) = 0 THEN <<>> ELSE res[order[1]].index,
     values |-> [i \in 1..Len(order) |-> res[order[i]][field]]]

----------------------------------------------------------------------------
(* SplicingDependency.predict as a state machine *)

\* what the run has flagged or logged about individual keys: predict and the
\* functions it calls print fixed progress messages only
Diagnostics == {}

PsiCell(e, s) == Int2F(10 * e + s)
ExprCell(g, s) == Int2F(3 * g + s)

SplicingTable(rows, cols) ==
    [index |-> rows, columns |-> cols,
     values |-> [i \in 1..Len(rows) |-> [j \in 1..Len(cols) |-> PsiCell(rows[i], cols[j])]]]

GenexprTable(rows, cols) ==
    [index |-> rows, columns |-> cols,
     values |-> [i \in 1..Len(rows) |-> [j \in 1..Len(cols) |-> ExprCell(rows[i], cols[j])]]]

BEvent(pair) == ToF(<<pair[1], pair[1] + 1, 2>>)
BGene(pair) == ToF(<<pair[2], 0, 1>>)
BIntercept(pair) == ToF(<<0, 1, -1>>)

CoefRow(pair, b) == [EVENT |-> pair[1], GENE |-> 100 + pair[2], ENSEMBL |-> pair[2], b |-> b]

CoefsSplicing(pairs) == [i \in 1..Len(pairs) |-> CoefRow(pairs[i], BEvent(pairs[i]))]
CoefsGenexpr(pairs) == [i \in 1..Len(pairs) |-> CoefRow(pairs[i], BGene(pairs[i]))]
CoefsIntercept(pairs) == [i \in 1..Len(pairs) |-> CoefRow(pairs[i], BIntercept(pairs[i]))]

StatRow(pair, es, gs) ==
    [EVENT |-> pair[1], ENSEMBL |-> pair[2],
     event_mean |-> Int2F(9 * pair[1]), event_std |-> Int2F(es),
     gene_mean |-> Int2F(2 * pair[2]), gene_std |-> Int2F(gs)]

\* the Event -> Gene mappings used: events 1 and 2 share gene 1 / events 2 and 3 do
MapA == <<<<1, 1>>, <<2, 1>>, <<3, 2>>>>
MapB == <<<<1, 2>>, <<2, 1>>, <<3, 1>>>>

Reorder(q, p) == [i \in 1..Len(p) |-> q[p[i]]]
RemoveAt(q, i) == SubSeq(q, 1, i - 1) \o SubSeq(q, i + 1, Len(q))

FullStats(pairs) == [i \in 1..Len(pairs) |-> StatRow(pairs[i], IF pairs[i][1] = 2 THEN 2 ELSE 1, pairs[i][2])]

\* the parameters given to the constructor and the arguments given to predict;
\* none holds the names of the optional arguments passed as None (their field
\* is then an empty placeholder that is never read)
PredictArgs(sp, ge, st, ce, cg, ci, nj) ==
    [splicing |-> sp, genexpr |-> ge, ccle_stats |-> st, coefs_splicing |-> ce,
     coefs_genexpr |-> cg, coefs_intercept |-> ci, n_jobs |-> nj,
     normalize_counts |-> FALSE, log_transform |-> FALSE, none |-> {}]

\* the tables of the package, read when an argument is None
CCLE_STATS_FILE == FullStats(MapA)
COEFS_SPLICING_FILE == CoefsSplicing(MapA)
COEFS_GENEXPR_FILE == CoefsGenexpr(MapA)
COEFS_INTERCEPT_FILE == CoefsIntercept(MapA)
GENE_LENGTHS_FILE == <<[gene |-> 1, length |-> Int2F(2)], [gene |-> 2, length |-> Int2F(1)]>>

\* predict, lines 157-173: each optional argument, or the default table when it is None
WithDefaults(a) ==
    [a EXCEPT
        !.ccle_stats = IF "ccle_stats" \in a.none THEN CCLE_STATS_FILE ELSE @,
        !.coefs_splicing = IF "coefs_splicing" \in a.none THEN COEFS_SPLICING_FILE ELSE @,
        !.coefs_genexpr = IF "coefs_genexpr" \in a.none THEN COEFS_GENEXPR_FILE ELSE @,
        !.coefs_intercept = IF "coefs_intercept" \in a.none THEN COEFS_INTERCEPT_FILE ELSE @]

\* the tables predict works on
Tables == WithDefaults(args)

\* inputs that vary the keys of the tables and their order
AlignInputs ==
    {PredictArgs(SplicingTable(er, sc), GenexprTable(gr, gc), FullStats(MapA),
                 CoefsSplicing(pairs), CoefsGenexpr(pairs),
                 CoefsIntercept(pairs), 1)
        : er \in {<<1, 2, 3>>, <<3, 1, 2>>, <<2, 3>>, <<>>},
          sc \in {<<1, 2>>, <<2, 1>>, <<2>>},
          gr \in {<<1, 2>>, <<2, 1>>, <<2>>},
          gc \in {<<1, 2>>, <<1>>},
          pairs \in {MapA, Reorder(MapA, <<3, 1, 2>>), <<<<3, 2>>, <<1, 1>>>>}}

\* the reference table: one row per pair with a zero std in one of them, in any order
ZeroStdStats(pairs) ==
    {[i \in 1..Len(pairs) |->
        StatRow(pairs[i], IF pairs[i][1] = ze THEN 0 ELSE 1, IF pairs[i][2] = zg THEN 0 ELSE 2)]
        : ze \in {0, 1}, zg \in {0, 1}}

\* reference tables: one row per pair with or without a zero std, one with a
\* pair left out and one with a second row for event 1
StatsTables ==
    UNION {ZeroStdStats(m) \cup {RemoveAt(FullStats(m), 2),
                                 Append(FullStats(m), StatRow(<<1, 3>>, 1, 1))}
           : m \in {MapA, MapB}}

\* inputs that vary the reference statistics and the order of their rows
StatsInputs ==
    UNION {
      {PredictArgs(SplicingTable(<<1, 2, 3>>, <<1, 2>>), GenexprTable(<<1, 2>>, <<1, 2>>),
                   Reorder(st, p),
                   CoefsSplicing(pairs), CoefsGenexpr(pairs),
                   CoefsIntercept(pairs), 1)
          : pairs \in {MapA, MapB}, p \in SetOrders(1..Len(st))}
      : st \in StatsTables}

\* the table with its first k bootstrap columns only
FirstColumns(coefs, k) == [i \in 1..Len(coefs) |-> [coefs[i] EXCEPT !.b = SubSeq(@, 1, k)]]

\* the table with row i present twice
RepeatRow(coefs, i) == SubSeq(coefs, 1, i) \o SubSeq(coefs, i, Len(coefs))

\* inputs that vary the coefficient tables and the number of workers: a table
\* with a row left out, with fewer bootstrap columns, with a key held twice, or
\* with an event recorded under another gene
CoefInputs ==
    {PredictArgs(SplicingTable(<<1, 2, 3>>, <<1, 2>>), GenexprTable(<<1, 2>>, <<1, 2>>),
                 FullStats(MapA), CoefsSplicing(MapA), cg, ci, nj)
        : cg \in {CoefsGenexpr(MapA)}
                    \cup {RemoveAt(CoefsGenexpr(MapA), i) : i \in 1..3}
                    \cup {FirstColumns(CoefsGenexpr(MapA), 2),
                          RepeatRow(CoefsGenexpr(MapA), 2),
                          [CoefsGenexpr(MapA) EXCEPT ![2] = CoefRow(<<2, 2>>, BGene(<<2, 2>>))]},
          ci \in {CoefsIntercept(MapA), RemoveAt(CoefsIntercept(MapA), 3),
                  FirstColumns(CoefsIntercept(MapA), 1)},
          nj \in 1..MaxJobs}

\* calls that leave optional arguments None
DefaultInputs ==
    {[PredictArgs(SplicingTable(er, <<1, 2>>), GenexprTable(<<1, 2>>, <<1, 2>>),
                  IF "ccle_stats" \in no THEN <<>> ELSE FullStats(MapB),
                  IF "coefs_splicing" \in no THEN <<>> ELSE CoefsSplicing(MapB),
                  IF "coefs_genexpr" \in no THEN <<>> ELSE CoefsGenexpr(MapB),
                  IF "coefs_intercept" \in no THEN <<>> ELSE CoefsIntercept(MapB), 1)
        EXCEPT !.none = no]
        : er \in {<<1, 2, 3>>, <<2, 3>>},
          no \in {{"ccle_stats", "coefs_splicing", "coefs_genexpr", "coefs_intercept"},
                  {"ccle_stats"}, {"coefs_genexpr"},
                  {"coefs_splicing", "coefs_genexpr", "coefs_intercept"}}}

\* an expression table of counts: cell (g, s) is 2^(g+s) - 1
CountCell(g, s) == Int2F(Pow2(g + s) - 1)

CountTable(rows, cols) ==
    [index |-> rows, columns |-> cols,
     values |-> [i \in 1..Len(rows) |-> [j \in 1..Len(cols) |-> CountCell(rows[i], cols[j])]]]

\* estimators built with normalize_counts or log_transform
TransformInputs ==
    {[PredictArgs(SplicingTable(<<1, 2, 3>>, <<1, 2>>), ge, FullStats(MapA),
                  CoefsSplicing(MapA), CoefsGenexpr(MapA), CoefsIntercept(MapA), 1)
        EXCEPT !.normalize_counts = nc, !.log_transform = lt]
        : ge \in {CountTable(<<1, 2>>, <<1, 2>>), GenexprTable(<<2, 1>>, <<1, 2>>)},
          nc \in BOOLEAN, lt \in BOOLEAN}

PredictInputs == AlignInputs \cup StatsInputs \cup CoefInputs \cup DefaultInputs
                    \cup TransformInputs

Init ==
    /\ mode = "predict"
    /\ pc = "call"
    /\ args \in PredictInputs
    /\ EstimatorIdle /\ PoolIdle /\ RunIdle
    /\ returned = None /\ error = None

\* predict, lines 157-173: the inputs are saved as attributes, a default table
\* standing in for each optional argument that is None
SaveInputs ==
    /\ mode = "predict" /\ pc = "call"
    /\ splicing_' = args.splicing
    /\ genexpr_' = args.genexpr
    /\ ccle_stats_' = WithDefaults(args).ccle_stats
    /\ coefs_splicing_' = WithDefaults(args).coefs_splicing
    /\ coefs_genexpr_' = WithDefaults(args).coefs_genexpr
    /\ coefs_intercept_' = WithDefaults(args).coefs_intercept
    /\ pc' = "preprocess"
    /\ UNCHANGED <<runVars, mode, args, prep_splicing_, prep_genexpr_, splicing_dependency_,
                   summaries_, poolVars, returned, error>>

\* _preprocess, lines 107-113: counts to log2(TPM + 1), or log2(TPM + 1), or nothing
Transform(genexpr) ==
    IF args.normalize_counts THEN count_to_tpm(genexpr, GENE_LENGTHS_FILE)
    ELSE IF args.log_transform THEN LogTransform(genexpr)
    ELSE genexpr

TransformRaises(genexpr) ==
    args.normalize_counts /\ CountToTpmRaises(genexpr, GENE_LENGTHS_FILE)

\* what fit_models may hand back: the summaries and the three coefficient tables
FitResults ==
    {[summaries |-> [fitted |-> TRUE], coefs_splicing |-> CoefsSplicing(m),
      coefs_genexpr |-> CoefsGenexpr(m), coefs_intercept |-> CoefsIntercept(m)]
        : m \in {MapB}}

\* fit: the fitted summaries and coefficient tables are stored on the estimator
Fit ==
    /\ mode = "predict" /\ pc = "call"
    /\ summaries_ = Unset
    /\ \E r \in FitResults :
          /\ summaries_' = r.summaries
          /\ coefs_splicing_' = r.coefs_splicing
          /\ coefs_genexpr_' = r.coefs_genexpr
          /\ coefs_intercept_' = r.coefs_intercept
    /\ UNCHANGED <<runVars, mode, pc, args, splicing_, genexpr_, ccle_stats_, prep_splicing_,
                   prep_genexpr_, splicing_dependency_, poolVars, returned, error>>

\* _preprocess when it completes; the three sets are iterated in hash order
Preprocess ==
    /\ mode = "predict" /\ pc = "preprocess"
    /\ LET common_events == CommonEvents(coefs_splicing_, splicing_, genexpr_)
           common_genes == CommonGenes(coefs_splicing_, splicing_, genexpr_)
           common_samples == CommonSamples(splicing_, genexpr_)
       IN  \E er \in SetOrders(common_events), gr \in SetOrders(common_genes),
              sc \in SetOrders(common_samples) :
              LET splicing == Loc(splicing_, er, sc)
                  genexpr == Transform(Loc(genexpr_, gr, sc))
              IN  /\ ~TransformRaises(Loc(genexpr_, gr, sc))
                  /\ ~PreprocessRaisesOn(splicing, genexpr, ccle_stats_)
                  /\ prep_splicing_' = StandardizeSplicing(splicing, ccle_stats_)
                  /\ prep_genexpr_' = StandardizeGenexpr(genexpr, ccle_stats_)
                  /\ coefs_splicing_' = FilterCoefs(coefs_splicing_, common_events, common_genes)
                  /\ coefs_genexpr_' = FilterCoefs(coefs_genexpr_, common_events, common_genes)
                  /\ coefs_intercept_' = FilterCoefs(coefs_intercept_, common_events, common_genes)
    /\ pc' = "compute"
    /\ UNCHANGED <<runVars, mode, args, splicing_, genexpr_, ccle_stats_, splicing_dependency_,
                   summaries_, poolVars, returned, error>>

\* _preprocess when count_to_tpm raises (KeyError) or the standardization does
\* (ValueError: operands that cannot be aligned); no attribute is updated
PreprocessFails ==
    /\ mode = "predict" /\ pc = "preprocess"
    /\ LET common_events == CommonEvents(coefs_splicing_, splicing_, genexpr_)
           common_genes == CommonGenes(coefs_splicing_, splicing_, genexpr_)
           common_samples == CommonSamples(splicing_, genexpr_)
       IN  \E er \in SetOrders(common_events), gr \in SetOrders(common_genes),
              sc \in SetOrders(common_samples) :
              IF TransformRaises(Loc(genexpr_, gr, sc))
              THEN error' = [type |-> "KeyError", key |-> <<>>, where |-> "preprocess"]
              ELSE /\ PreprocessRaisesOn(Loc(splicing_, er, sc),
                                         Transform(Loc(genexpr_, gr, sc)), ccle_stats_)
                   /\ error' = [type |-> "ValueError", key |-> <<>>, where |-> "preprocess"]
    /\ pc' = "failed"
    /\ UNCHANGED <<runVars, mode, args, estimatorVars, poolVars, returned>>

Tasks == PairsOf(coefs_splicing_)

\* joblib: the generator is advanced n_jobs items at a time (batches of one task)
Chunk ==
    next_task..(IF next_task + args.n_jobs - 1 <= Len(Tasks)
                THEN next_task + args.n_jobs - 1 ELSE Len(Tasks))

\* tasks whose arguments are built and that have not been handed to the pool
Ready == {i \in 1..(next_task - 1) : i \notin running /\ i \notin SeqToSet(completion)}

\* tasks the pool may hold unfinished: one worker runs each task at once when it
\* is dispatched, several workers are given 2 * n_jobs tasks in advance
PreDispatch == IF args.n_jobs = 1 THEN 1 ELSE 2 * args.n_jobs

\* the items of the chunk whose arguments cannot be built (KeyError)
ChunkRaising ==
    {i \in Chunk : TaskArgsRaise(coefs_genexpr_, coefs_intercept_, Tasks[i])}

\* Parallel advances the generator: the arguments of the next n_jobs pairs are built
Generate ==
    /\ mode = "predict" /\ pc = "compute"
    /\ next_task <= Len(Tasks)
    /\ Ready = {} /\ Cardinality(running) < PreDispatch
    /\ ChunkRaising = {}
    /\ next_task' = next_task + Cardinality(Chunk)
    /\ UNCHANGED <<runVars, mode, pc, args, estimatorVars, running, result, completion,
                   returned, error>>

\* building the arguments of a pair of the chunk raises KeyError, which leaves
\* predict; no task of the chunk has been handed to the pool
GenerateFails ==
    /\ mode = "predict" /\ pc = "compute"
    /\ next_task <= Len(Tasks)
    /\ Ready = {} /\ Cardinality(running) < PreDispatch
    /\ ChunkRaising # {}
    /\ pc' = "failed"
    /\ error' = [type |-> "KeyError",
                 key |-> TaskArgsKeyError(coefs_genexpr_, coefs_intercept_,
                            Tasks[CHOOSE i \in ChunkRaising : \A j \in ChunkRaising : i <= j]),
                 where |-> "task"]
    /\ UNCHANGED <<runVars, mode, args, estimatorVars, poolVars, returned>>

\* the next task whose arguments are built is handed to the pool
Dispatch ==
    /\ mode = "predict" /\ pc = "compute"
    /\ Ready # {} /\ Cardinality(running) < PreDispatch
    /\ running' = running \cup {CHOOSE i \in Ready : \A j \in Ready : i <= j}
    /\ UNCHANGED <<runVars, mode, pc, args, estimatorVars, next_task, result, completion,
                   returned, error>>

\* a worker finishes its task; tasks finish in any order
Complete(i) ==
    /\ mode = "predict" /\ pc = "compute"
    /\ i \in running
    /\ ~TaskRaises(coefs_splicing_, coefs_genexpr_, coefs_intercept_, Tasks[i])
    /\ result' = (i :> TaskSummary(prep_splicing_, prep_genexpr_, coefs_splicing_,
                                   coefs_genexpr_, coefs_intercept_, Tasks[i])) @@ result
    /\ running' = running \ {i}
    /\ completion' = Append(completion, i)
    /\ UNCHANGED <<runVars, mode, pc, args, estimatorVars, next_task, returned, error>>

\* a worker's call raises (numpy cannot broadcast the coefficient vectors);
\* Parallel re-raises the exception in predict
CompleteFails(i) ==
    /\ mode = "predict" /\ pc = "compute"
    /\ i \in running
    /\ TaskRaises(coefs_splicing_, coefs_genexpr_, coefs_intercept_, Tasks[i])
    /\ pc' = "failed"
    /\ error' = [type |-> "ValueError", key |-> <<>>, where |-> "task"]
    /\ UNCHANGED <<runVars, mode, args, estimatorVars, poolVars, returned>>

\* every task is done: the five tables are built, stored and the median returned
Aggregate ==
    /\ mode = "predict" /\ pc = "compute"
    /\ next_task > Len(Tasks) /\ Ready = {} /\ running = {}
    /\ LET order == ResultOrder(Len(Tasks), completion)
           tables == [f \in Fields |-> ResultTable(result, order, f)]
       IN  /\ splicing_dependency_' = tables
           /\ returned' = tables["median"]
    /\ pc' = "done"
    /\ UNCHANGED <<runVars, mode, args, splicing_, genexpr_, ccle_stats_, coefs_splicing_,
                   coefs_genexpr_, coefs_intercept_, prep_splicing_, prep_genexpr_,
                   summaries_, poolVars, error>>

Next ==
    \/ Fit
    \/ SaveInputs
    \/ Preprocess
    \/ PreprocessFails
    \/ Generate
    \/ GenerateFails
    \/ Dispatch
    \/ \E i \in running : Complete(i)
    \/ \E i \in running : CompleteFails(i)
    \/ Aggregate

Spec == Init /\ [][Next]_vars

----------------------------------------------------------------------------
(* PredictFromFiles.run: load_data, predict, save *)

\* run starts: nothing is loaded, the estimator does not exist yet, output_dir
\* holds no result file; args is the content of the input files
InitRun ==
    /\ mode = "predict"
    /\ pc = "idle"
    /\ args \in PredictInputs
    /\ EstimatorIdle /\ PoolIdle
    /\ returned = None /\ error = None
    /\ run_pc = "load" /\ files = NoFiles

\* run, line 393: the input files are read
LoadData ==
    /\ run_pc = "load"
    /\ run_pc' = "estimate"
    /\ UNCHANGED <<mode, pc, args, estimatorVars, poolVars, returned, error, files>>

\* run, lines 396-408: the estimator is built and predict is entered
CallPredict ==
    /\ run_pc = "estimate" /\ pc = "idle"
    /\ pc' = "call"
    /\ run_pc' = "predict"
    /\ UNCHANGED <<mode, args, estimatorVars, poolVars, returned, error, files>>

\* predict has returned; run goes on to save
PredictReturns ==
    /\ run_pc = "predict" /\ pc = "done"
    /\ run_pc' = "save"
    /\ UNCHANGED <<mode, pc, args, estimatorVars, poolVars, returned, error, files>>

\* predict has raised; nothing in run catches the exception
PredictRaises ==
    /\ run_pc = "predict" /\ pc = "failed"
    /\ run_pc' = "failed"
    /\ UNCHANGED <<mode, pc, args, estimatorVars, poolVars, returned, error, files>>

\* save, line 379: os.makedirs(output_dir, exist_ok=True)
MakeDirs ==
    /\ run_pc = "save"
    /\ run_pc' = "write"
    /\ UNCHANGED <<mode, pc, args, estimatorVars, poolVars, returned, error, files>>

\* the file save is writing or will write next: the first one not complete
NextFile == ResultFiles[CHOOSE i \in 1..Len(ResultFiles) :
                            /\ files[ResultFiles[i]] # "complete"
                            /\ \A j \in 1..(i - 1) : files[ResultFiles[j]] = "complete"]

AllWritten == \A i \in 1..Len(ResultFiles) : files[ResultFiles[i]] = "complete"

\* to_csv opens the file of the next table and starts writing it
BeginWrite ==
    /\ run_pc = "write" /\ ~AllWritten
    /\ files[NextFile] = "absent"
    /\ files' = [files EXCEPT ![NextFile] = "partial"]
    /\ UNCHANGED <<mode, pc, args, estimatorVars, poolVars, returned, error, run_pc>>

\* to_csv has written the whole table and closes the file; after the last
\* table save and run return
EndWrite ==
    /\ run_pc = "write" /\ ~AllWritten
    /\ files[NextFile] = "partial"
    /\ files' = [files EXCEPT ![NextFile] = "complete"]
    /\ run_pc' = IF NextFile = ResultFiles[Len(ResultFiles)] THEN "done" ELSE "write"
    /\ UNCHANGED <<mode, pc, args, estimatorVars, poolVars, returned, error>>

\* the write raises (OSError: no space left, permission); the exception leaves run
WriteFails ==
    /\ run_pc = "write" /\ ~AllWritten
    /\ files[NextFile] = "partial"
    /\ run_pc' = "failed"
    /\ error' = [type |-> "OSError", key |-> <<>>, where |-> "save"]
    /\ UNCHANGED <<mode, pc, args, estimatorVars, poolVars, returned, files>>

\* the process is interrupted (KeyboardInterrupt) at any point of run; nothing
\* handles it, tasks in flight are abandoned and what is on disk stays
Interrupt ==
    /\ run_pc \in {"load", "estimate", "predict", "save", "write"}
    /\ run_pc' = "interrupted"
    /\ pc' = IF pc \in {"idle", "done", "failed"} THEN pc ELSE "interrupted"
    /\ error' = [type |-> "KeyboardInterrupt", key |-> <<>>, where |-> "run"]
    /\ UNCHANGED <<mode, args, estimatorVars, poolVars, returned, files>>

NextRun ==
    \/ LoadData
    \/ CallPredict
    \/ SaveInputs
    \/ Preprocess
    \/ PreprocessFails
    \/ Generate
    \/ GenerateFails
    \/ Dispatch
    \/ \E i \in running : Complete(i)
    \/ \E i \in running : CompleteFails(i)
    \/ Aggregate
    \/ PredictReturns
    \/ PredictRaises
    \/ MakeDirs
    \/ BeginWrite
    \/ EndWrite
    \/ WriteFails
    \/ Interrupt

SpecRun == InitRun /\ [][NextRun]_vars

----------------------------------------------------------------------------
(* C3: the pair evaluator's formula and its five reductions *)

C3_K == Len(args.b_event)

\* the K predicted values of sample s, written from the formula
C3_Col(s) ==
    [k \in 1..C3_K |->
        FAdd(args.b_intercept[k],
             FAdd(FMul(args.b_event[k], args.x_splicing.values[s]),
                  FMul(args.b_gene[k], args.x_genexpr.values[s])))]

\* the j-th smallest value of col, defined by counting
OrderStat(col, j) ==
    CHOOSE v \in {col[k] : k \in 1..Len(col)} :
        /\ Cardinality({k \in 1..Len(col) : FLess(col[k], v)}) < j
        /\ j <= Cardinality({k \in 1..Len(col) : ~FLess(v, col[k])})

\* the q = qn/4 quantile by linear interpolation between order statistics
LinearQuantile(col, qn) ==
    LET h4 == (Len(col) - 1) * qn
        lo == (h4 \div 4) + 1
        hi == IF lo < Len(col) THEN lo + 1 ELSE lo
    IN  FAdd(OrderStat(col, lo),
             FMul(Rat(h4 % 4, 4), FSub(OrderStat(col, hi), OrderStat(col, lo))))

\* E[y^2] - E[y]^2
PopulationVariance(col) ==
    LET K == Int2F(Len(col))
        m == FDiv(SumSeq(col), K)
        m2 == FDiv(SumSeq([k \in 1..Len(col) |-> FMul(col[k], col[k])]), K)
    IN  FSub(m2, FMul(m, m))

\* a <= b as floats compare: False when either is NaN
FLeq(a, b) == ~IsNaN(a) /\ ~IsNaN(b) /\ ~FLess(b, a)

C3_IsExample(s) ==
    /\ args.b_event = <<Int2F(1), Int2F(2), Int2F(3)>>
    /\ args.b_gene = <<Zero, Zero, Zero>>
    /\ args.b_intercept = <<Zero, Zero, Zero>>
    /\ args.x_splicing.values[s] = <<1, 2>>
    /\ args.x_genexpr.values[s] = Zero

\* C3: compute_single_splicing_dependency returns five vectors of length S whose
\* entry s is the mean, the median, the population standard deviation (to
\* 1/StdScale) and the linearly interpolated 25th and 75th percentiles of
\* y[k,s] = b_intercept[k] + b_event[k]*psi[s] + b_gene[k]*tpm[s], k = 1..K;
\* the worked example gives mean 1, median 1, q25 3/4 and q75 5/4.
C3_PairSummary ==
    (mode = "pair" /\ pc = "done") =>
        LET S == Len(args.x_splicing.values)
            K == C3_K
        IN  /\ \A f \in {"mean", "median", "std", "q25", "q75"} : Len(returned[f]) = S
            /\ returned.index = args.x_splicing.index
            /\ \A s \in 1..S :
                LET col == C3_Col(s)
                    sd == returned.std[s]
                    var == PopulationVariance(col)
                IN  /\ FMul(returned.mean[s], Int2F(K)) = SumSeq(col)
                    /\ returned.median[s] =
                          (IF K % 2 = 1 THEN OrderStat(col, (K + 1) \div 2)
                           ELSE FDiv(FAdd(OrderStat(col, K \div 2),
                                          OrderStat(col, (K \div 2) + 1)), Int2F(2)))
                    /\ returned.q25[s] = LinearQuantile(col, 1)
                    /\ returned.q75[s] = LinearQuantile(col, 3)
                    /\ FLeq(Zero, sd)
                    /\ FLeq(FMul(sd, sd), var)
                    /\ FLess(var, FMul(FAdd(sd, Rat(1, StdScale)), FAdd(sd, Rat(1, StdScale))))
                    /\ C3_IsExample(s) =>
                          /\ returned.mean[s] = Int2F(1)
                          /\ returned.median[s] = Int2F(1)
                          /\ returned.q25[s] = <<3, 4>>
                          /\ returned.q75[s] = <<5, 4>>

\* the worked example has been evaluated and an interpolated quartile produced
C3_Witness ==
    /\ mode = "pair" /\ pc = "done"
    /\ C3_IsExample(1)
    /\ returned.q25[1] = <<3, 4>>
    /\ returned.std[1] = Rat(40, 100)

----------------------------------------------------------------------------
(* C4: the max-harm score *)

\* C4: for every (event, sample) cell common to both tables the result holds
\* -1 * score * (final_PSI - PSI), final_PSI = 0 for a negative and 100 for a
\* positive score (score -2, PSI 30 -> -60; score 2, PSI 30 -> -140), and the
\* result has exactly the common events and samples.
C4_MaxHarm ==
    (mode = "harm" /\ pc = "done") =>
        LET ev == SeqToSet(args.splicing.index) \cap SeqToSet(args.splicing_dependency.index)
            sm == SeqToSet(args.splicing.columns) \cap SeqToSet(args.splicing_dependency.columns)
        IN  /\ SeqToSet(returned.index) = ev /\ Len(returned.index) = Cardinality(ev)
            /\ SeqToSet(returned.columns) = sm /\ Len(returned.columns) = Cardinality(sm)
            /\ \A e \in ev, s \in sm :
                LET d == At(args.splicing_dependency, e, s)
                    psi == At(args.splicing, e, s)
                    h == At(returned, e, s)
                IN  /\ FLess(d, Zero) => h = FMul(FNeg(d), FSub(Zero, psi))
                    /\ FLess(Zero, d) => h = FMul(FNeg(d), FSub(Int2F(100), psi))
                    /\ (d = Int2F(-2) /\ psi = Int2F(30)) => h = Int2F(-60)
                    /\ (d = Int2F(2) /\ psi = Int2F(30)) => h = Int2F(-140)

\* both worked examples occur in one result
C4_Witness ==
    /\ mode = "harm" /\ pc = "done"
    /\ \E e \in SeqToSet(returned.index), s, t \in SeqToSet(returned.columns) :
          /\ At(args.splicing_dependency, e, s) = Int2F(-2)
          /\ At(args.splicing, e, s) = Int2F(30)
          /\ At(returned, e, s) = Int2F(-60)
          /\ At(args.splicing_dependency, e, t) = Int2F(2)
          /\ At(args.splicing, e, t) = Int2F(30)
          /\ At(returned, e, t) = Int2F(-140)

----------------------------------------------------------------------------
(* C1: the aggregated rows follow the enumeration of the coefficient index *)

\* C1: when compute_splicing_dependency returns, row i of each of the five
\* tables is the summary of the i-th (EVENT, ENSEMBL) pair of the coefficient
\* index, whatever the number of workers and the order in which the tasks
\* completed; the tables are therefore a function of the inputs alone.
C1_RowsInTaskOrder ==
    (mode = "predict" /\ pc = "done") =>
        \A f \in Fields :
            LET t == splicing_dependency_[f]
            IN  /\ Len(t.index) = Len(Tasks)
                /\ Len(t.values) = Len(Tasks)
                /\ \A i \in 1..Len(Tasks) :
                    LET expected == TaskSummary(prep_splicing_, prep_genexpr_, coefs_splicing_,
                                                coefs_genexpr_, coefs_intercept_, Tasks[i])
                    IN  /\ t.index[i] = Tasks[i][1]
                        /\ t.values[i] = expected[f]

\* a run with several workers whose tasks completed out of order
C1_Witness ==
    /\ mode = "predict" /\ pc = "done"
    /\ args.n_jobs > 1
    /\ Len(Tasks) = 3
    /\ completion = <<2, 3, 1>>
    /\ splicing_dependency_["mean"].values[1] # splicing_dependency_["mean"].values[2]

----------------------------------------------------------------------------
(* C2: a pair missing from the gene or intercept coefficients *)

\* the rows of the event-coefficient table whose event and gene are in the inputs
AlignedPairs(a) ==
    LET Aligned(r) == r.EVENT \in SeqToSet(a.splicing.index)
                        /\ r.ENSEMBL \in SeqToSet(a.genexpr.index)
    IN  PairsOf(SelectSeq(a.coefs_splicing, Aligned))

MissingPairs(a) ==
    {p \in SeqToSet(AlignedPairs(a)) : ~HasKey(a.coefs_genexpr, p) \/ ~HasKey(a.coefs_intercept, p)}

\* C2: when an aligned pair of the event coefficients is absent from the gene or
\* the intercept coefficients, predict completes, the pair's event is in no
\* output table and the run reports exactly that key as skipped.
C2_MissingPairSkipped ==
    (mode = "predict" /\ pc \in {"done", "failed"} /\ MissingPairs(Tables) # {}) =>
        /\ pc = "done"
        /\ \A f \in Fields, p \in MissingPairs(Tables) :
              p[1] \notin SeqToSet(splicing_dependency_[f].index)
        /\ Diagnostics = MissingPairs(Tables)

----------------------------------------------------------------------------
(* C5: a reference standard deviation of zero *)

NonFinite(v) == ~IsFinite(v)

\* pairs whose event or gene has a zero reference std
DegeneratePairs(a) ==
    {p \in SeqToSet(AlignedPairs(a)) :
        \E i \in 1..Len(a.ccle_stats) :
            \/ a.ccle_stats[i].EVENT = p[1] /\ a.ccle_stats[i].event_std = Zero
            \/ a.ccle_stats[i].ENSEMBL = p[2] /\ a.ccle_stats[i].gene_std = Zero}

\* C5: no output row of a pair whose event or gene has reference std zero holds
\* an Inf or NaN value unless the run flagged that key.
C5_DegenerateFlagged ==
    (mode = "predict" /\ pc = "done") =>
        \A f \in Fields, i \in 1..Len(Tasks) :
            (Tasks[i] \in DegeneratePairs(Tables)
                /\ \E j \in 1..Len(splicing_dependency_[f].values[i]) :
                       NonFinite(splicing_dependency_[f].values[i][j]))
            => Tasks[i] \in Diagnostics

----------------------------------------------------------------------------
(* C6: a pair whose evaluation raises *)

\* the pairs whose evaluation raises, in building the arguments or in the worker
RaisingPairs ==
    {p \in SeqToSet(Tasks) :
        \/ TaskArgsRaise(coefs_genexpr_, coefs_intercept_, p)
        \/ TaskRaises(coefs_splicing_, coefs_genexpr_, coefs_intercept_, p)}

\* C6: when the evaluation of a pair raises, predict fails, nothing is returned
\* or stored and the exception names the failing (Event, Gene) key.
C6_FailFastNamesKey ==
    (mode = "predict" /\ pc = "failed" /\ error.where = "task") =>
        /\ returned = None
        /\ splicing_dependency_ = Unset
        /\ error.key \in RaisingPairs

----------------------------------------------------------------------------
(* C7: the shape of the output tables *)

\* C7: after predict each table has one row per aligned pair of the coefficient
\* table, in order, and its column set is the set of samples common to the PSI
\* and the expression table.
C7_OutputShape ==
    (mode = "predict" /\ pc = "done") =>
        \A f \in Fields :
            LET t == splicing_dependency_[f]
                pairs == AlignedPairs(Tables)
            IN  /\ Len(t.index) = Len(pairs)
                /\ \A i \in 1..Len(pairs) : t.index[i] = pairs[i][1]
                /\ SeqToSet(t.columns) = CommonSamples(args.splicing, args.genexpr)

----------------------------------------------------------------------------
(* C8: empty key intersections *)

\* the inputs have no other fault: the three coefficient tables hold the same keys
\* with vectors of one length, and the reference table holds one row per pair
ConsistentInputs(a) ==
    /\ PairsOf(a.coefs_genexpr) = PairsOf(a.coefs_splicing)
    /\ PairsOf(a.coefs_intercept) = PairsOf(a.coefs_splicing)
    /\ \A i \in 1..Len(a.coefs_splicing) :
          /\ Len(a.coefs_genexpr[i].b) = Len(a.coefs_splicing[i].b)
          /\ Len(a.coefs_intercept[i].b) = Len(a.coefs_splicing[i].b)
    /\ \A p \in SeqToSet(AlignedPairs(a)) :
          /\ Cardinality({i \in 1..Len(a.ccle_stats) : a.ccle_stats[i].EVENT = p[1]}) = 1
          /\ \E i \in 1..Len(a.ccle_stats) : PairsOf(a.ccle_stats)[i] = p

EmptyIntersection(a) ==
    \/ SeqToSet(a.splicing.index) \cap {p[1] : p \in SeqToSet(PairsOf(a.coefs_splicing))} = {}
    \/ SeqToSet(a.genexpr.index) \cap {p[2] : p \in SeqToSet(PairsOf(a.coefs_splicing))} = {}
    \/ CommonSamples(a.splicing, a.genexpr) = {}

IsEmptyTable(t) == Len(t.index) = 0 \/ Len(t.columns) = 0

\* C8: with an empty intersection of event, gene or sample keys (and inputs
\* without another fault) predict raises no error and the result tables it
\* produces are empty.
C8_EmptyIntersection ==
    (mode = "predict" /\ ConsistentInputs(Tables) /\ EmptyIntersection(Tables)) =>
        /\ pc # "failed" /\ error = None
        /\ pc = "done" =>
              /\ \A f \in Fields : IsEmptyTable(splicing_dependency_[f])
              /\ IsEmptyTable(returned)

\* predict has completed on inputs without a common sample: rows without columns
C8_Witness ==
    /\ mode = "predict" /\ pc = "done"
    /\ ConsistentInputs(Tables)
    /\ CommonSamples(args.splicing, args.genexpr) = {}
    /\ Len(returned.index) = 3 /\ Len(returned.columns) = 0

----------------------------------------------------------------------------
(* C9: every row is standardized with its own reference statistics *)

\* C9: every retained PSI cell is (psi[e,s] - event_mean[e]) / event_std[e] and
\* every retained expression cell (expr[g,s] - gene_mean[g]) / gene_std[g], with
\* the statistics the reference table records for that event e and that gene g.
C9_OwnStatistics ==
    (mode = "predict" /\ pc \in {"compute", "done"} /\ ConsistentInputs(Tables)
        /\ ~args.normalize_counts /\ ~args.log_transform) =>
        /\ \A e \in SeqToSet(prep_splicing_.index), s \in SeqToSet(prep_splicing_.columns) :
              \A i \in 1..Len(Tables.ccle_stats) :
                  Tables.ccle_stats[i].EVENT = e =>
                      At(prep_splicing_, e, s) =
                          FDiv(FSub(At(args.splicing, e, s), Tables.ccle_stats[i].event_mean),
                               Tables.ccle_stats[i].event_std)
        /\ \A g \in SeqToSet(prep_genexpr_.index), s \in SeqToSet(prep_genexpr_.columns) :
              \A i \in 1..Len(Tables.ccle_stats) :
                  Tables.ccle_stats[i].ENSEMBL = g =>
                      At(prep_genexpr_, g, s) =
                          FDiv(FSub(At(args.genexpr, g, s), Tables.ccle_stats[i].gene_mean),
                               Tables.ccle_stats[i].gene_std)

----------------------------------------------------------------------------
(* C10: the alignment keeps the order of rows and columns *)

\* the labels of sub occur in full in the same relative order
OrderKept(sub, full) ==
    \A i, j \in 1..Len(sub) : i < j => IndexOf(full, sub[i]) < IndexOf(full, sub[j])

\* C10: the filtered PSI, expression and coefficient tables keep their retained
\* rows and sample columns in the relative order of the original tables.
C10_OrderPreserved ==
    (mode = "predict" /\ pc \in {"compute", "done"}) =>
        /\ OrderKept(PairsOf(coefs_splicing_), PairsOf(Tables.coefs_splicing))
        /\ OrderKept(PairsOf(coefs_genexpr_), PairsOf(Tables.coefs_genexpr))
        /\ OrderKept(PairsOf(coefs_intercept_), PairsOf(Tables.coefs_intercept))
        /\ OrderKept(prep_splicing_.index, args.splicing.index)
        /\ OrderKept(prep_splicing_.columns, args.splicing.columns)
        /\ OrderKept(prep_genexpr_.index, args.genexpr.index)
        /\ OrderKept(prep_genexpr_.columns, args.genexpr.columns)

----------------------------------------------------------------------------
(* C11: a run writes all of its result tables or none *)

\* C11: when PredictFromFiles.run has been interrupted or has failed, no result
\* table has been written: every result file of output_dir is absent.
C11_AllOrNothing ==
    run_pc \in {"interrupted", "failed"} =>
        \A i \in 1..Len(ResultFiles) : files[ResultFiles[i]] = "absent"

====
